---------------------------- MODULE Spec2Model ----------------------------
(***************************************************************************)
(* A model of openedx_webhooks/views/jira.py: the views that process       *)
(* webhook events coming from JIRA.                                        *)
(*                                                                         *)
(* A handler is a function of the event it receives, of the remote state   *)
(* it reads (the JIRA tracker, GitHub) and of how the remote side answers  *)
(* each outbound call.  The answers are gathered in an "oracle" o: the set *)
(* o.fail of the source lines whose outbound call gets a non-ok response,  *)
(* and the data JIRA returns.  Every outbound call a handling makes is     *)
(* logged, in order, in run.calls, with the source line that makes it.     *)
(***************************************************************************)
EXTENDS Integers, Sequences, FiniteSets, TLC

VARIABLES
    event,        \* the webhook event (payload) delivered last
    deliveries,   \* how many times it has been delivered and handled
    run,          \* what the last handling did: calls, outcome, ...
    jiraStatus,   \* JIRA: the current status of the event's issue
    prState,      \* GitHub: "open" / "closed" state of the pull request
    prLabels,     \* GitHub: the labels on the pull request, in order
    prComments,   \* GitHub: number of comments posted on the pull request
    repoLabels,   \* GitHub: the label catalog of the repository
    customFieldsCached, \* memo of get_jira_custom_fields() is filled
    issueCache,   \* memo of get_jira_issue(): parent issue as first fetched
    parentFields, \* JIRA: the current fields of the issues that are parents
    resolved      \* what the last call of a link-resolution function gave

vars == <<event, deliveries, run, jiraStatus, prState, prLabels, prComments,
          repoLabels, customFieldsCached, issueCache, parentFields, resolved>>

(***************************************************************************)
(* Bounds of the model.                                                    *)
(***************************************************************************)
MaxDeliveries == 2   \* deliveries of one event (the first and redeliveries)
MaxLabels == 2       \* labels on the pull request in an initial state

None == "<none>"     \* Python's None, an absent key

Range(s) == {s[i] : i \in DOMAIN s}

(***************************************************************************)
(* Values shared by the handlers.                                          *)
(***************************************************************************)
\* One logged outbound call.  names/state/labels hold the response's data.
Call(op, line, ok, arg, names, state, labels) ==
    [op |-> op, line |-> line, ok |-> ok, arg |-> arg,
     names |-> names, state |-> state, labels |-> labels]

\* A formatted message: the text with its format arguments.
Msg(msg, key, num, labels) ==
    [msg |-> msg, key |-> key, num |-> num, labels |-> labels]

Text(msg) == Msg(msg, None, 0, <<>>)

\* How a view ends: a returned body (HTTP 200, or 400 for junk) or a raised
\* exception, which Flask turns into HTTP 500.
Returned(value) == [kind |-> "return", status |-> 200, exc |-> None, value |-> value]
Rejected400 == [kind |-> "return", status |-> 400, exc |-> None, value |-> <<Text("junk")>>]
Raised(exc, value) == [kind |-> "raise", status |-> 500, exc |-> exc, value |-> value]
NoOutcome == [kind |-> "none", status |-> 0, exc |-> None, value |-> <<>>]

\* Sequencing: evaluate v once, then continue with K on its value.
Bind(v, K(_)) == CHOOSE r \in {K(x) : x \in {v}} : TRUE

WriteOps == {"jira.post", "jira.put", "github.post", "github.patch"}

LinesOf(calls) == {calls[i].line : i \in DOMAIN calls}
WritesOf(calls) == {i \in DOMAIN calls : calls[i].op \in WriteOps}
CallAt(calls, line) == calls[CHOOSE i \in DOMAIN calls : calls[i].line = line]


(***************************************************************************)
(* JIRA as the triage code sees it.                                        *)
(***************************************************************************)
NeedsTriage == "Needs Triage"

\* The transitions JIRA may offer for an issue: name, id, and the status the
\* transition leads to.
JiraTransitions ==
    { [name |-> "Open", id |-> "11", to |-> "Open"],
      [name |-> "Design Backlog", id |-> "21", to |-> "Design Backlog"],
      [name |-> "Close", id |-> "31", to |-> "Closed"] }

TransitionNames == {t.name : t \in JiraTransitions}

\* transitions = {t["name"]: t["id"] for t in ...["transitions"]}
TransitionsDict(offered) ==
    [n \in offered |-> (CHOOSE t \in JiraTransitions : t.name = n).id]

\* JIRA executing the transition with the posted id.
StatusAfterTransition(id) == (CHOOSE t \in JiraTransitions : t.id = id).to

GroupNames == {"edx-employees", "clarice", "bnotions", "partners"}

\* The "issue" object of a payload, as far as the code reads it: repo and
\* num are the raw values of the custom fields "Repo" and "PR Number",
\* parent is the key of fields.parent (None when the key is absent).
LinkedIssue(key, project, subtask, status, repo, num, parent) ==
    [key |-> key, project |-> project, subtask |-> subtask, status |-> status,
     repo |-> repo, num |-> num, parent |-> parent]

Issue(key, project, subtask, status) ==
    LinkedIssue(key, project, subtask, status, None, None, None)

NoIssue == Issue(None, None, FALSE, None)

\* One item of a changelog.
Item(field, from, to) == [field |-> field, fromString |-> from, toString |-> to]

\* A webhook event: "issue" may be missing (junk), "comment" and
\* "changelog" are optional.
Event(type, hasIssue, issue, comment, hasChangelog, items) ==
    [type |-> type, hasIssue |-> hasIssue, issue |-> issue, comment |-> comment,
     hasChangelog |-> hasChangelog, items |-> items]

NoEvent == Event("none", FALSE, NoIssue, None, FALSE, <<>>)

(***************************************************************************)
(* should_transition: whether the issue is to be moved out of              *)
(* "Needs Triage".  Returns the decision, the exception raised (None when  *)
(* none) and the outbound calls made.                                      *)
(***************************************************************************)
exempt_groups ==
    [g \in {"edx-employees", "clarice", "bnotions"} |->
        IF g = "edx-employees" THEN {"ALL"} ELSE {"MOB"}]

\* A variant of IsExempt that forgets for which projects a group is exempt.
IsExempt_AnyProject(user_groups, project_key) ==
    \E user_group \in user_groups : user_group \in DOMAIN exempt_groups

\* The loop over user_groups: some group of the user is exempt for all
\* projects or for this project.
IsExempt(user_groups, project_key) ==
    \E user_group \in user_groups :
        /\ user_group \in DOMAIN exempt_groups
        /\ \/ "ALL" \in exempt_groups[user_group]
           \/ project_key \in exempt_groups[user_group]

\* A variant of should_transition without the status check of line 113.
should_transition_NoStatusCheck(issue, o) ==
    IF issue.project = "OSPR" /\ ~issue.subtask
    THEN [ret |-> FALSE, exc |-> None, calls |-> <<>>]
    ELSE LET ok == 139 \notin o.fail
             user_resp == Call("jira.get", 139, ok, <<"user?expand=groups">>,
                               IF ok THEN o.groups ELSE {}, None, <<>>)
         IN  IF ~ok
             THEN [ret |-> FALSE, exc |-> "RequestException", calls |-> <<user_resp>>]
             ELSE [ret |-> IsExempt(user_resp.names, issue.project),
                   exc |-> None, calls |-> <<user_resp>>]

\* A variant of should_transition without the OSPR rule of line 127.
should_transition_NoOsprRule(issue, o) ==
    IF issue.status # NeedsTriage
    THEN [ret |-> FALSE, exc |-> None, calls |-> <<>>]
    ELSE LET ok == 139 \notin o.fail
             user_resp == Call("jira.get", 139, ok, <<"user?expand=groups">>,
                               IF ok THEN o.groups ELSE {}, None, <<>>)
         IN  IF ~ok
             THEN [ret |-> FALSE, exc |-> "RequestException", calls |-> <<user_resp>>]
             ELSE [ret |-> IsExempt(user_resp.names, issue.project),
                   exc |-> None, calls |-> <<user_resp>>]

should_transition(issue, o) ==
    IF issue.status # NeedsTriage
    THEN [ret |-> FALSE, exc |-> None, calls |-> <<>>]
    ELSE IF issue.project = "OSPR" /\ ~issue.subtask
    THEN [ret |-> FALSE, exc |-> None, calls |-> <<>>]
    ELSE LET ok == 139 \notin o.fail
             user_resp == Call("jira.get", 139, ok, <<"user?expand=groups">>,
                               IF ok THEN o.groups ELSE {}, None, <<>>)
         IN  IF ~ok
             THEN [ret |-> FALSE, exc |-> "RequestException", calls |-> <<user_resp>>]
             ELSE [ret |-> IsExempt(user_resp.names, issue.project),
                   exc |-> None, calls |-> <<user_resp>>]

(***************************************************************************)
(* issue_opened: act on the decision.  Returns the calls made, the outcome *)
(* and the issue's status in JIRA afterwards.                              *)
(***************************************************************************)
\* A variant of ChooseTransition that tries "Design Backlog" first.
ChooseTransition_BacklogFirst(transitions) ==
    IF "Design Backlog" \in DOMAIN transitions THEN "Design Backlog"
    ELSE IF "Open" \in DOMAIN transitions THEN "Open"
    ELSE None

\* Lines 180-185: "Open" if offered, else "Design Backlog", else none.
ChooseTransition(transitions) ==
    IF "Open" \in DOMAIN transitions THEN "Open"
    ELSE IF "Design Backlog" \in DOMAIN transitions THEN "Design Backlog"
    ELSE None

issue_opened(issue, o, status) ==
    Bind(should_transition(issue, o), LAMBDA st :
    LET done(calls, outcome, newStatus) ==
            [calls |-> calls, outcome |-> outcome, jiraStatus |-> newStatus]
    IN  IF st.exc # None
        THEN done(st.calls, Raised(st.exc, <<>>), status)
        ELSE IF ~st.ret
        THEN done(st.calls, Returned(<<Text("ignored")>>), status)
        ELSE
          LET getOk == 176 \notin o.fail
              transitions_resp ==
                  Call("jira.get", 176, getOk, <<"transitions">>,
                       IF getOk THEN o.offered ELSE {}, None, <<>>)
              transitions == TransitionsDict(transitions_resp.names)
              new_status == ChooseTransition(transitions)
              postOk == 192 \notin o.fail
              transition_resp ==
                  Call("jira.post", 192, postOk, <<transitions[new_status]>>,
                       {}, None, <<>>)
          IN  IF ~getOk
              THEN done(st.calls \o <<transitions_resp>>,
                        Raised("RequestException", <<>>), status)
              ELSE IF new_status = None
              THEN done(st.calls \o <<transitions_resp>>,
                        Raised("ValueError", <<Text("No valid transition!")>>),
                        status)
              ELSE IF ~postOk
              THEN done(st.calls \o <<transitions_resp, transition_resp>>,
                        Raised("RequestException", <<>>), status)
              ELSE done(st.calls \o <<transitions_resp, transition_resp>>,
                        Returned(<<Text("Transitioned to Open")>>),
                        StatusAfterTransition(transitions[new_status])))

\* The /jira/issue/created view.
jira_issue_created(ev, o, status) ==
    IF ~ev.hasIssue
    THEN [calls |-> <<>>, outcome |-> Rejected400, jiraStatus |-> status]
    ELSE issue_opened(ev.issue, o, status)


(***************************************************************************)
(* GitHub and the parts of JIRA the status synchronizer reads.  The        *)
(* handlers thread a world w: the calls made so far, the pull request and  *)
(* the catalog on GitHub, and the two memo caches of the process.  Every   *)
(* function returns [w, exc, text, ret]: the world afterwards, the         *)
(* exception raised (None when it returned), its text, the return value.   *)
(***************************************************************************)
\* The pull request that exists on GitHub; a call about any other gets 404.
ThePull == [repo |-> "edx/edx-platform", num |-> 7]

\* Python's str.lower() on the status and label names of the model.
Lower(s) ==
    CASE s = "Open" -> "open"
      [] s = "Merged" -> "merged"
      [] s = "Rejected" -> "rejected"
      [] s = "Needs Triage" -> "needs triage"
      [] OTHER -> s

\* Python's truth value of a raw field value: None and "" are false.
Falsy(v) == v = None \/ v = ""

\* int(pr_num) inside try/except: the number, or None.
IntOrNone(raw) ==
    CASE raw = "7" -> [some |-> TRUE, n |-> 7]
      [] raw = "8" -> [some |-> TRUE, n |-> 8]
      [] raw = "9" -> [some |-> TRUE, n |-> 9]
      [] raw = "0" -> [some |-> TRUE, n |-> 0]
      [] raw = "-3" -> [some |-> TRUE, n |-> -3]
      [] OTHER -> [some |-> FALSE, n |-> 0]

NoNum == [some |-> FALSE, n |-> 0]

Result(w, exc, text, ret) == [w |-> w, exc |-> exc, text |-> text, ret |-> ret]

Logged(w, call) == [w EXCEPT !.calls = Append(@, call)]

\* The response of the call made last.
Resp(w) == w.calls[Len(w.calls)]

\* Lines 27-40, memoized: one fetch of the field catalog per process.
get_jira_custom_fields(w, o) ==
    IF w.customFieldsCached
    THEN Result(w, None, <<>>, TRUE)
    ELSE LET ok == 32 \notin o.fail
             w1 == Logged(w, Call("jira.get", 32, ok, <<"field">>, {}, None, <<>>))
         IN  IF ~ok
             THEN Result(w1, "RequestException", <<>>, FALSE)
             ELSE Result([w1 EXCEPT !.customFieldsCached = TRUE], None, <<>>, TRUE)

\* Lines 43-45, memoized by key: the parent issue as JIRA returned it the
\* first time it was asked for.
\* jira_get("/rest/api/2/issue/{key}"): the issue as JIRA holds it now.
jira_get_issue(key) == parentFields[key]

get_jira_issue(w, key, o) ==
    IF w.issueCache[key].cached
    THEN Result(w, None, <<>>, w.issueCache[key])
    ELSE LET fetched == [cached |-> TRUE, repo |-> jira_get_issue(key).repo,
                         num |-> jira_get_issue(key).num]
             w1 == Logged(w, Call("jira.get", 45, TRUE, <<"issue", key>>,
                                  {}, None, <<>>))
         IN  Result([w1 EXCEPT !.issueCache[key] = fetched], None, <<>>, fetched)

\* A variant of github_pr_repo that goes on to the parent's parent when the
\* parent has no "Repo" either.
github_pr_repo_ChaseAncestors(w, issue, o) ==
    Bind(get_jira_custom_fields(w, o), LAMBDA cf :
    LET pr_repo == issue.repo
        parent_ref == issue.parent
    IN  IF cf.exc # None
        THEN Result(cf.w, cf.exc, cf.text, None)
        ELSE IF Falsy(pr_repo) /\ parent_ref # None
        THEN Bind(get_jira_issue(cf.w, parent_ref, o), LAMBDA parent :
             LET grandparent_ref == jira_get_issue(parent_ref).parent
             IN  IF Falsy(parent.ret.repo) /\ grandparent_ref # None
                 THEN Bind(get_jira_issue(parent.w, grandparent_ref, o),
                           LAMBDA grandparent :
                           Result(grandparent.w, None, <<>>, grandparent.ret.repo))
                 ELSE Result(parent.w, None, <<>>, parent.ret.repo))
        ELSE Result(cf.w, None, <<>>, pr_repo))

github_pr_repo(w, issue, o) ==
    Bind(get_jira_custom_fields(w, o), LAMBDA cf :
    LET pr_repo == issue.repo
        parent_ref == issue.parent
    IN  IF cf.exc # None
        THEN Result(cf.w, cf.exc, cf.text, None)
        ELSE IF Falsy(pr_repo) /\ parent_ref # None
        THEN Bind(get_jira_issue(cf.w, parent_ref, o), LAMBDA parent :
             Result(parent.w, None, <<>>, parent.ret.repo))
        ELSE Result(cf.w, None, <<>>, pr_repo))

github_pr_num(w, issue, o) ==
    Bind(get_jira_custom_fields(w, o), LAMBDA cf :
    LET pr_num == issue.num
        parent_ref == issue.parent
    IN  IF cf.exc # None
        THEN Result(cf.w, cf.exc, cf.text, NoNum)
        ELSE IF Falsy(pr_num) /\ parent_ref # None
        THEN Bind(get_jira_issue(cf.w, parent_ref, o), LAMBDA parent :
             Result(parent.w, None, <<>>, IntOrNone(parent.ret.num)))
        ELSE Result(cf.w, None, <<>>, IntOrNone(pr_num)))

NoUrl == [repo |-> None, num |-> 0]

\* Lines 234-245: the pull request's URL, /repos/{repo}/pulls/{num}.
github_pr_url(w, issue, o) ==
    Bind(github_pr_repo(w, issue, o), LAMBDA r :
    IF r.exc # None THEN Result(r.w, r.exc, r.text, NoUrl) ELSE
    Bind(github_pr_num(r.w, issue, o), LAMBDA n :
    IF n.exc # None THEN Result(n.w, n.exc, n.text, NoUrl)
    ELSE IF Falsy(r.ret) \/ ~n.ret.some \/ n.ret.n = 0
    THEN Result(n.w, "Exception",
                <<Msg("is missing Repo or PR Number fields", issue.key, 0, <<>>)>>,
                NoUrl)
    ELSE Result(n.w, None, <<>>, [repo |-> r.ret, num |-> n.ret.n])))

\* Python's list.remove(x): drop the first occurrence of x.
RemoveFirst(seq, x) ==
    LET at == CHOOSE i \in DOMAIN seq : seq[i] = x /\ \A j \in 1..(i - 1) : seq[j] # x
    IN  [i \in 1..(Len(seq) - 1) |-> IF i < at THEN seq[i] ELSE seq[i + 1]]

\* repo_labels_lower = {name.lower(): name for name in repo_labels}
\* (GitHub keeps label names unique up to case, so the name is unique).
repo_labels_lower(repo_labels) ==
    [l \in {Lower(name) : name \in repo_labels} |->
        CHOOSE name \in repo_labels : Lower(name) = l]

Entered(w, branch) == [w EXCEPT !.branches = Append(@, branch)]

(***************************************************************************)
(* The calls to GitHub: each logs the call with its response and, for a    *)
(* write that GitHub accepts, changes the pull request.                    *)
(***************************************************************************)
\* Somebody else edits the labels of the repository while the handler
\* runs: GitHub deletes a label from the catalog and from every pull
\* request, renames it in both, or adds a label to the catalog, keeping
\* the names of the catalog unique up to case.
Edited(w, edit) ==
    LET taken(name) == \E l \in w.repoLabels \ {edit.label} : Lower(l) = Lower(name)
    IN  CASE edit.kind = "delete" ->
               [w EXCEPT !.repoLabels = @ \ {edit.label},
                         !.prLabels = SelectSeq(@, LAMBDA l : l # edit.label)]
          [] edit.kind = "rename" /\ edit.label \in w.repoLabels /\ ~taken(edit.to) ->
               [w EXCEPT !.repoLabels = (@ \ {edit.label}) \cup {edit.to},
                         !.prLabels = [i \in DOMAIN @ |->
                                          IF @[i] = edit.label THEN edit.to ELSE @[i]]]
          [] edit.kind = "add" /\ ~taken(edit.to) ->
               [w EXCEPT !.repoLabels = @ \cup {edit.to}]
          [] OTHER -> w

\* The edit of the other actor, if any, reaches GitHub right before the
\* handler's call of line o.edit.at.
OtherActor(w, line, o) == IF o.edit.at = line THEN Edited(w, o.edit) ELSE w

\* github.get(issue_url), lines 339 and 390.
GetGithubIssue(w, line, url, o) ==
    Bind(OtherActor(w, line, o), LAMBDA wa :
    LET ok == line \notin o.fail /\ url = ThePull
    IN  Logged(wa, Call("github.get", line, ok, <<"issue">>, {},
                        IF ok THEN wa.prState ELSE None,
                        IF ok THEN wa.prLabels ELSE <<>>)))

\* github.get("/repos/{repo}/labels"), lines 305 and 396.
GetRepoLabels(w, line, repo, o) ==
    Bind(OtherActor(w, line, o), LAMBDA wa :
    LET ok == line \notin o.fail /\ repo = ThePull.repo
    IN  Logged(wa, Call("github.get", line, ok, <<"labels">>,
                        IF ok THEN wa.repoLabels ELSE {}, None, <<>>)))

\* github.post(issue_url + "/comments", json=comment), line 360.
PostComment(w, o) ==
    LET ok == 360 \notin o.fail
    IN  Logged([w EXCEPT !.prComments = IF ok THEN @ + 1 ELSE @],
               Call("github.post", 360, ok, <<"comment">>, {}, None, <<>>))

\* github.patch(pr_url, json={"state": "closed"}), line 363.
ClosePull(w, o) ==
    LET ok == 363 \notin o.fail
    IN  Logged([w EXCEPT !.prState = IF ok THEN "closed" ELSE @],
               Call("github.patch", 363, ok, <<"state", "closed">>, {}, None, <<>>))

\* github.patch(issue_url, json={"labels": pr_labels}), line 422.
PatchLabels(w, pr_labels, o) ==
    LET ok == 422 \notin o.fail
    IN  Logged([w EXCEPT !.prLabels = IF ok THEN pr_labels ELSE @],
               Call("github.patch", 422, ok, pr_labels, {}, None, <<>>))

(***************************************************************************)
(* jira_issue_rejected, lines 331-375.                                     *)
(***************************************************************************)
\* A variant of AlreadyClosed that never sees a closed pull request.
AlreadyClosed_Never(gh_issue) == FALSE

\* Line 345: the pull request is closed already.
AlreadyClosed(gh_issue) == gh_issue.state = "closed"

\* A variant of bug_text that names the failed close only.
bug_text_CloseOnly(close_resp, comment_resp) ==
    IF ~close_resp.ok THEN <<Text("Failed to close; ")>> ELSE <<>>

\* Lines 369-373: the text of the error, naming each call that failed.
bug_text(close_resp, comment_resp) ==
    (IF ~close_resp.ok THEN <<Text("Failed to close; ")>> ELSE <<>>)
    \o (IF ~comment_resp.ok THEN <<Text("Failed to comment on the PR; ")>> ELSE <<>>)

jira_issue_rejected(w0, issue, o) ==
    Bind(github_pr_num(Entered(w0, "rejected"), issue, o), LAMBDA n :
    IF n.exc # None THEN Result(n.w, n.exc, n.text, Text("")) ELSE
    Bind(github_pr_url(n.w, issue, o), LAMBDA u :
    IF u.exc # None THEN Result(u.w, u.exc, u.text, Text("")) ELSE
    Bind(GetGithubIssue(u.w, 339, u.ret, o), LAMBDA w1 :
    IF ~Resp(w1).ok THEN Result(w1, "RequestException", <<>>, Text(""))
    ELSE IF AlreadyClosed(Resp(w1))
    THEN Result(w1, None, <<>>,
                Msg("was rejected, but PR was already closed", issue.key, n.ret.n, <<>>))
    ELSE
    Bind(PostComment(w1, o), LAMBDA w2 :
    Bind(ClosePull(w2, o), LAMBDA w3 :
    LET comment_resp == Resp(w2)
        close_resp == Resp(w3)
    IN  IF ~close_resp.ok \/ ~comment_resp.ok
        THEN Result(w3, "RequestException", bug_text(close_resp, comment_resp), Text(""))
        ELSE Result(w3, None, <<>>, Msg("Closed PR", None, n.ret.n, <<>>)))))))

(***************************************************************************)
(* jira_issue_status_changed, lines 378-425.                               *)
(***************************************************************************)
StatusItems(items) == SelectSeq(items, LAMBDA item : item.field = "status")

\* A variant of NewLabels that leaves the label of the old status in place.
NewLabels_KeepOld(pr_labels0, lower, old_status, new_status) ==
    LET new_status_label == lower[Lower(new_status)]
    IN  IF new_status_label \notin Range(pr_labels0)
        THEN Append(pr_labels0, new_status_label) ELSE pr_labels0

\* A variant of NewLabels that toggles the label of the new status: it
\* drops the label when the pull request has it already.
NewLabels_Toggle(pr_labels0, lower, old_status, new_status) ==
    LET old_status_label ==
            IF Lower(old_status) \in DOMAIN lower THEN lower[Lower(old_status)]
            ELSE old_status
        pr_labels1 ==
            IF old_status_label \in Range(pr_labels0)
            THEN RemoveFirst(pr_labels0, old_status_label) ELSE pr_labels0
        new_status_label == lower[Lower(new_status)]
    IN  IF new_status_label \notin Range(pr_labels1)
        THEN Append(pr_labels1, new_status_label)
        ELSE RemoveFirst(pr_labels1, new_status_label)

\* Lines 408-417: the label list to write.
NewLabels(pr_labels0, lower, old_status, new_status) ==
    LET old_status_label ==
            IF Lower(old_status) \in DOMAIN lower THEN lower[Lower(old_status)]
            ELSE old_status
        pr_labels1 ==
            IF old_status_label \in Range(pr_labels0)
            THEN RemoveFirst(pr_labels0, old_status_label) ELSE pr_labels0
        new_status_label == lower[Lower(new_status)]
    IN  IF new_status_label \notin Range(pr_labels1)
        THEN Append(pr_labels1, new_status_label) ELSE pr_labels1

jira_issue_status_changed(w0, issue, items, o) ==
    Bind(github_pr_num(Entered(w0, "status_changed"), issue, o), LAMBDA n :
    IF n.exc # None THEN Result(n.w, n.exc, n.text, Text("")) ELSE
    Bind(github_pr_repo(n.w, issue, o), LAMBDA r :
    IF r.exc # None THEN Result(r.w, r.exc, r.text, Text("")) ELSE
    Bind(github_pr_url(r.w, issue, o), LAMBDA u :
    IF u.exc # None THEN Result(u.w, u.exc, u.text, Text("")) ELSE
    Bind(GetGithubIssue(u.w, 390, u.ret, o), LAMBDA w1 :
    IF ~Resp(w1).ok THEN Result(w1, "RequestException", <<>>, Text("")) ELSE
    Bind(GetRepoLabels(w1, 396, r.ret, o), LAMBDA w2 :
    IF ~Resp(w2).ok THEN Result(w2, "RequestException", <<>>, Text("")) ELSE
    LET status_changelog == StatusItems(items)[1]
        old_status == status_changelog.fromString
        new_status == status_changelog.toString
        lower == repo_labels_lower(Resp(w2).names)
    IN  IF Lower(new_status) \notin DOMAIN lower
        THEN Result(w2, "KeyError", <<Text(Lower(new_status))>>, Text(""))
        ELSE
        Bind(NewLabels(Resp(w1).labels, lower, old_status, new_status), LAMBDA pr_labels :
        Bind(PatchLabels(w2, pr_labels, o), LAMBDA w3 :
        IF ~Resp(w3).ok THEN Result(w3, "RequestException", <<>>, Text(""))
        ELSE Result(w3, None, <<>>,
                    Msg("Changed labels of PR", None, n.ret.n, pr_labels)))))))))

(***************************************************************************)
(* jira_issue_comment_added, lines 428-495 (the course report parser).     *)
(* comment is what the body holds: "short" (fewer than two lines),         *)
(* "noreport" (no header/content pair) or "report".                        *)
(***************************************************************************)
jira_issue_comment_added(w, issue, comment, o) ==
    IF issue.project # "COR" THEN Result(w, None, <<>>, Text("I don't care"))
    ELSE IF comment = "short" THEN Result(w, None, <<>>, Text("I don't care"))
    ELSE IF comment = "noreport"
    THEN Result(w, None, <<>>, Text("Didn't find header/content pair"))
    ELSE
    Bind(get_jira_custom_fields(w, o), LAMBDA cf :
    IF cf.exc # None THEN Result(cf.w, cf.exc, cf.text, Text("")) ELSE
    Bind(Logged(cf.w, Call("jira.put", 492, 492 \notin o.fail, <<"fields">>,
                           {}, None, <<>>)), LAMBDA w1 :
    IF ~Resp(w1).ok THEN Result(w1, "RequestException", <<>>, Text(""))
    ELSE Result(w1, None, <<>>, Msg("cert info updated", issue.key, 0, <<>>))))

(***************************************************************************)
(* The /jira/issue/updated view, lines 248-328.  Returns the world         *)
(* afterwards, the outcome, and the outcomes the branches returned         *)
(* (the list "changes").                                                   *)
(***************************************************************************)
Handled(w, outcome, changes) == [w |-> w, outcome |-> outcome, changes |-> changes]

\* A variant of LabelWorthy that looks the status up without lowercasing.
LabelWorthy_CaseSensitive(new_status, repo_labels) == new_status \in repo_labels

\* Line 321: new_status.lower() in repo_labels_lower.
LabelWorthy(new_status, repo_labels) ==
    Lower(new_status) \in DOMAIN repo_labels_lower(repo_labels)

\* A variant of LabelStep that joins the outcomes even when there is none.
LabelStep_EmptyJoin(w, issue, items, new_status, repo_labels, changes1, o) ==
    IF ~LabelWorthy(new_status, repo_labels)
    THEN Handled(w, Returned(changes1), changes1)
    ELSE
    Bind(jira_issue_status_changed(w, issue, items, o), LAMBDA lab :
    IF lab.exc # None THEN Handled(lab.w, Raised(lab.exc, lab.text), changes1)
    ELSE Handled(lab.w, Returned(Append(changes1, lab.ret)), Append(changes1, lab.ret)))

\* Lines 321-328: the label branch, then the join of the outcomes.
LabelStep(w, issue, items, new_status, repo_labels, changes1, o) ==
    IF ~LabelWorthy(new_status, repo_labels)
    THEN IF Len(changes1) > 0 THEN Handled(w, Returned(changes1), changes1)
         ELSE Handled(w, Returned(<<Text("no change necessary")>>), changes1)
    ELSE
    Bind(jira_issue_status_changed(w, issue, items, o), LAMBDA lab :
    IF lab.exc # None THEN Handled(lab.w, Raised(lab.exc, lab.text), changes1)
    ELSE Handled(lab.w, Returned(Append(changes1, lab.ret)), Append(changes1, lab.ret)))

\* A variant of ReactToStatusChange without the check of line 306: a failed
\* fetch of the catalog is taken for an empty catalog.
ReactToStatusChange_NoOkCheck(w, issue, items, o) ==
    Bind(github_pr_repo(w, issue, o), LAMBDA r :
    IF r.exc # None THEN Handled(r.w, Raised(r.exc, r.text), <<>>)
    ELSE IF Falsy(r.ret)
    THEN Handled(r.w, Raised("Exception",
                    <<Msg("is missing Repo field", issue.key, 0, <<>>)>>), <<>>)
    ELSE
    Bind(GetRepoLabels(r.w, 305, r.ret, o), LAMBDA w1 :
    LET repo_labels == Resp(w1).names
        new_status == StatusItems(items)[1].toString
    IN  IF new_status = "Rejected"
        THEN Bind(jira_issue_rejected(w1, issue, o), LAMBDA rej :
             IF rej.exc # None THEN Handled(rej.w, Raised(rej.exc, rej.text), <<>>)
             ELSE LabelStep(rej.w, issue, items, new_status, repo_labels,
                            <<rej.ret>>, o))
        ELSE LabelStep(w1, issue, items, new_status, repo_labels, <<>>, o)))

\* Lines 300-328: the reactions to a status change.
ReactToStatusChange(w, issue, items, o) ==
    Bind(github_pr_repo(w, issue, o), LAMBDA r :
    IF r.exc # None THEN Handled(r.w, Raised(r.exc, r.text), <<>>)
    ELSE IF Falsy(r.ret)
    THEN Handled(r.w, Raised("Exception",
                    <<Msg("is missing Repo field", issue.key, 0, <<>>)>>), <<>>)
    ELSE
    Bind(GetRepoLabels(r.w, 305, r.ret, o), LAMBDA w1 :
    IF ~Resp(w1).ok THEN Handled(w1, Raised("RequestException", <<>>), <<>>) ELSE
    LET repo_labels == Resp(w1).names
        new_status == StatusItems(items)[1].toString
    IN  IF new_status = "Rejected"
        THEN Bind(jira_issue_rejected(w1, issue, o), LAMBDA rej :
             IF rej.exc # None THEN Handled(rej.w, Raised(rej.exc, rej.text), <<>>)
             ELSE LabelStep(rej.w, issue, items, new_status, repo_labels,
                            <<rej.ret>>, o))
        ELSE LabelStep(w1, issue, items, new_status, repo_labels, <<>>, o)))

\* The checks of lines 282-298 and the reactions after them.
\* A variant of jira_issue_updated that lets OSPR subtasks through.
jira_issue_updated_NoSubtaskCheck(ev, o, w) ==
    IF ~ev.hasIssue THEN Handled(w, Rejected400, <<>>)
    ELSE IF ev.comment # None
    THEN Bind(jira_issue_comment_added(w, ev.issue, ev.comment, o), LAMBDA c :
         IF c.exc # None THEN Handled(c.w, Raised(c.exc, c.text), <<>>)
         ELSE Handled(c.w, Returned(<<c.ret>>), <<>>))
    ELSE IF ev.issue.project # "OSPR"
    THEN Handled(w, Returned(<<Text("I don't care")>>), <<>>)
    ELSE IF ~ev.hasChangelog
    THEN Handled(w, Returned(<<Text("I don't care")>>), <<>>)
    ELSE IF Len(StatusItems(ev.items)) = 0
    THEN Handled(w, Returned(<<Text("I don't care")>>), <<>>)
    ELSE ReactToStatusChange(w, ev.issue, ev.items, o)

\* A variant of jira_issue_updated without the junk check of line 267: an
\* event without an issue is taken for an event about no project.
jira_issue_updated_NoJunkCheck(ev, o, w) ==
    IF ev.comment # None
    THEN Bind(jira_issue_comment_added(w, ev.issue, ev.comment, o), LAMBDA c :
         IF c.exc # None THEN Handled(c.w, Raised(c.exc, c.text), <<>>)
         ELSE Handled(c.w, Returned(<<c.ret>>), <<>>))
    ELSE IF ev.issue.project # "OSPR"
    THEN Handled(w, Returned(<<Text("I don't care")>>), <<>>)
    ELSE IF ev.issue.subtask
    THEN Handled(w, Returned(<<Text("ignoring subtasks")>>), <<>>)
    ELSE IF ~ev.hasChangelog
    THEN Handled(w, Returned(<<Text("I don't care")>>), <<>>)
    ELSE IF Len(StatusItems(ev.items)) = 0
    THEN Handled(w, Returned(<<Text("I don't care")>>), <<>>)
    ELSE ReactToStatusChange(w, ev.issue, ev.items, o)

jira_issue_updated(ev, o, w) ==
    IF ~ev.hasIssue THEN Handled(w, Rejected400, <<>>)
    ELSE IF ev.comment # None
    THEN Bind(jira_issue_comment_added(w, ev.issue, ev.comment, o), LAMBDA c :
         IF c.exc # None THEN Handled(c.w, Raised(c.exc, c.text), <<>>)
         ELSE Handled(c.w, Returned(<<c.ret>>), <<>>))
    ELSE IF ev.issue.project # "OSPR"
    THEN Handled(w, Returned(<<Text("I don't care")>>), <<>>)
    ELSE IF ev.issue.subtask
    THEN Handled(w, Returned(<<Text("ignoring subtasks")>>), <<>>)
    ELSE IF ~ev.hasChangelog
    THEN Handled(w, Returned(<<Text("I don't care")>>), <<>>)
    ELSE IF Len(StatusItems(ev.items)) = 0
    THEN Handled(w, Returned(<<Text("I don't care")>>), <<>>)
    ELSE ReactToStatusChange(w, ev.issue, ev.items, o)

(***************************************************************************)
(* The inputs: events, and how the remote side answers.                    *)
(***************************************************************************)
\* An edit of the repository's labels by somebody else: its kind, the label
\* it is about, the new name, and the handler's call it comes right before.
Edit(at, kind, label, to) == [at |-> at, kind |-> kind, label |-> label, to |-> to]
NoEdit == Edit(0, "none", None, None)

Oracle(fail, groups, offered) ==
    [fail |-> fail, groups |-> groups, offered |-> offered, edit |-> NoEdit]

\* The failures a handling can meet.  Every failed call ends the handling,
\* but for the comment post of line 360: the close of line 363 follows it
\* whatever its response, and may fail as well.
FailSets(lines) ==
    {{}} \cup {{l} : l \in lines}
         \cup (IF {360, 363} \subseteq lines THEN {{360, 363}} ELSE {})

TriageOracles ==
    {Oracle(f, g, t) : f \in FailSets({139, 176, 192}),
                       g \in SUBSET GroupNames, t \in SUBSET TransitionNames}

SyncOracles ==
    {Oracle(f, {}, {}) : f \in FailSets({32, 305, 339, 360, 363, 390, 396, 422})}

KeyOf(project, subtask) ==
    CASE project = "OSPR" -> IF subtask THEN "OSPR-2" ELSE "OSPR-1"
      [] project = "MOB" -> IF subtask THEN "MOB-4" ELSE "MOB-3"
      [] OTHER -> IF subtask THEN "COR-6" ELSE "COR-5"

CreatedEvents ==
    {Event("created", TRUE, Issue(KeyOf(p, s), p, s, st), None, FALSE, <<>>) :
        p \in {"OSPR", "MOB", "COR"}, s \in BOOLEAN, st \in {NeedsTriage, "Open"}}
    \cup {Event("created", FALSE, NoIssue, None, FALSE, <<>>)}

\* A status change of the top-level OSPR issue that tracks a pull request.
StatusChange(old, new, repo, num) ==
    Event("updated", TRUE,
          LinkedIssue("OSPR-1", "OSPR", FALSE, new, repo, num, None),
          None, TRUE, <<Item("status", old, new)>>)

SyncEvents ==
    {StatusChange(old, new, repo, num) :
        old \in {NeedsTriage, "Open", "Merged"},
        new \in {NeedsTriage, "Open", "Merged", "Rejected"},
        repo \in {ThePull.repo, None}, num \in {"7", "abc"}}

LabelNames == {"bug", "Open", "Merged", "merged", "rejected"}

\* GitHub keeps the label names of a repository unique up to case.
Catalogs ==
    {c \in SUBSET LabelNames : \A a, b \in c : Lower(a) = Lower(b) => a = b}

\* The sequences without repetition of at most n labels of the catalog c.
LabelSeqs(c, n) ==
    UNION {{q \in [1..k -> c] : \A i, j \in 1..k : q[i] = q[j] => i = j} : k \in 0..n}

\* The issues that are parents: "OSPR-9" is the parent of the subtasks of the
\* model, and "OSPR-8" the parent of "OSPR-9".
ParentKeys == {"OSPR-9", "OSPR-8"}
NotCached == [cached |-> FALSE, repo |-> None, num |-> None]

\* The fields of an issue in JIRA that link resolution is about.
Fields(repo, num, parent) == [repo |-> repo, num |-> num, parent |-> parent]
NoFields == Fields(None, None, None)

NoResolution == [fn |-> "none", issue |-> NoIssue, exc |-> None, text |-> <<>>,
                 repo |-> None, num |-> NoNum, calls |-> <<>>,
                 tracker |-> [k \in ParentKeys |-> NoFields]]

(***************************************************************************)
(* The state after the import of the module: nothing delivered, both memo  *)
(* caches empty.  The remote state is whatever JIRA and GitHub hold.       *)
(***************************************************************************)
Snapshot == [jiraStatus |-> jiraStatus, prState |-> prState,
             prLabels |-> prLabels, prComments |-> prComments]

NoRun == [handler |-> "none", calls |-> <<>>, outcome |-> NoOutcome,
          changes |-> <<>>, branches |-> <<>>,
          before |-> [jiraStatus |-> None, prState |-> "open",
                      prLabels |-> <<>>, prComments |-> 0],
          prevOutcome |-> NoOutcome]

InitProcess ==
    /\ event = NoEvent
    /\ deliveries = 0
    /\ run = NoRun
    /\ customFieldsCached = FALSE
    /\ issueCache = [k \in ParentKeys |-> NotCached]
    /\ resolved = NoResolution

InitTriage ==
    /\ InitProcess
    /\ jiraStatus = None
    /\ prState = "open"
    /\ prLabels = <<>>
    /\ prComments = 0
    /\ repoLabels = {}
    /\ parentFields = [k \in ParentKeys |-> NoFields]

InitSync ==
    /\ InitProcess
    /\ jiraStatus = None
    /\ prState \in {"open", "closed"}
    /\ repoLabels \in Catalogs
    /\ prLabels \in LabelSeqs(repoLabels, MaxLabels)
    /\ prComments = 0
    /\ parentFields = [k \in ParentKeys |-> NoFields]

(***************************************************************************)
(* The actions: one per view, for the first delivery of an event and for   *)
(* a redelivery of the same payload.                                       *)
(***************************************************************************)
CreatedStep(ev, o, status) ==
    \E h \in {jira_issue_created(ev, o, status)} :
        /\ event' = ev
        /\ deliveries' = deliveries + 1
        /\ jiraStatus' = h.jiraStatus
        /\ run' = [handler |-> "created", calls |-> h.calls, outcome |-> h.outcome,
                   changes |-> <<>>, branches |-> <<>>,
                   before |-> [Snapshot EXCEPT !.jiraStatus = status],
                   prevOutcome |-> run.outcome]
        /\ UNCHANGED <<prState, prLabels, prComments, repoLabels,
                       customFieldsCached, issueCache, parentFields, resolved>>

\* JIRA creates the issue, in the status the payload reports, and delivers
\* the issue-created event.
IssueCreated ==
    /\ deliveries = 0
    /\ \E ev \in CreatedEvents, o \in TriageOracles :
          CreatedStep(ev, o, ev.issue.status)

\* JIRA delivers the same issue-created payload again.
RedeliverCreated ==
    /\ event.type = "created"
    /\ deliveries < MaxDeliveries
    /\ \E o \in TriageOracles : CreatedStep(event, o, jiraStatus)

UpdatedStep(ev, o) ==
    \E w \in {[calls |-> <<>>, branches |-> <<>>, prState |-> prState,
               prLabels |-> prLabels, prComments |-> prComments,
               repoLabels |-> repoLabels,
               customFieldsCached |-> customFieldsCached,
               issueCache |-> issueCache]} :
    \E h \in {jira_issue_updated(ev, o, w)} :
        /\ event' = ev
        /\ deliveries' = deliveries + 1
        /\ run' = [handler |-> "updated", calls |-> h.w.calls, outcome |-> h.outcome,
                   changes |-> h.changes, branches |-> h.w.branches,
                   before |-> Snapshot, prevOutcome |-> run.outcome]
        /\ prState' = h.w.prState
        /\ prLabels' = h.w.prLabels
        /\ prComments' = h.w.prComments
        /\ repoLabels' = h.w.repoLabels
        /\ customFieldsCached' = h.w.customFieldsCached
        /\ issueCache' = h.w.issueCache
        /\ UNCHANGED <<jiraStatus, parentFields, resolved>>

IssueUpdated ==
    /\ deliveries = 0
    /\ \E ev \in SyncEvents, o \in SyncOracles : UpdatedStep(ev, o)

RedeliverUpdated ==
    /\ event.type = "updated"
    /\ deliveries < MaxDeliveries
    /\ \E o \in SyncOracles : UpdatedStep(event, o)

NextTriage == IssueCreated \/ RedeliverCreated
NextSync == IssueUpdated \/ RedeliverUpdated

SpecTriage == InitTriage /\ [][NextTriage]_vars
SpecSync == InitSync /\ [][NextSync]_vars

(***************************************************************************)
(* The two views, receiving events of every shape: with or without an      *)
(* issue, a comment, a changelog, a status item in the changelog.          *)
(***************************************************************************)
MaxEvents == 2       \* events delivered to the views in one behaviour

\* The changelogs of the model: none, one without a status item, one with
\* a status item only, one with a status item after another item.
Changelogs ==
    { [has |-> FALSE, items |-> <<>>],
      [has |-> TRUE, items |-> <<Item("assignee", "ann", "bob")>>],
      [has |-> TRUE, items |-> <<Item("status", "Open", "Rejected")>>],
      [has |-> TRUE, items |-> <<Item("assignee", "ann", "bob"),
                                 Item("status", "Open", "Merged")>>] }

UpdatedEvents ==
    {Event("updated", TRUE,
           LinkedIssue(KeyOf(p, s), p, s, "Open", ThePull.repo, "7", None),
           c, ch.has, ch.items) :
        p \in {"OSPR", "COR"}, s \in BOOLEAN,
        c \in {None, "short", "noreport", "report"}, ch \in Changelogs}
    \cup {Event("updated", FALSE, NoIssue, c, ch.has, ch.items) :
            c \in {None, "report"}, ch \in Changelogs}

ViewTriageOracles ==
    {Oracle(f, g, t) : f \in FailSets({139, 176, 192}),
                       g \in {{}, {"edx-employees"}}, t \in {{}, {"Open"}}}

ViewSyncOracles ==
    {Oracle(f, {}, {}) :
        f \in FailSets({32, 305, 339, 360, 363, 390, 396, 422, 492})}

InitViews ==
    /\ InitProcess
    /\ jiraStatus = None
    /\ prState \in {"open", "closed"}
    /\ repoLabels = {"bug", "Open", "merged", "rejected"}
    /\ prLabels \in {<<>>, <<"bug", "Open">>}
    /\ prComments = 0
    /\ parentFields = [k \in ParentKeys |-> NoFields]

\* JIRA delivers an issue-created event to /jira/issue/created.
ViewCreated ==
    /\ deliveries < MaxEvents
    /\ \E ev \in CreatedEvents, o \in ViewTriageOracles :
          CreatedStep(ev, o, ev.issue.status)

\* JIRA delivers an issue-updated event to /jira/issue/updated.
ViewUpdated ==
    /\ deliveries < MaxEvents
    /\ \E ev \in UpdatedEvents, o \in ViewSyncOracles : UpdatedStep(ev, o)

NextViews == ViewCreated \/ ViewUpdated

SpecViews == InitViews /\ [][NextViews]_vars

(***************************************************************************)
(* The status synchronizer while somebody else edits the labels of the     *)
(* repository: between the catalog fetch of line 305 and the fetch of the  *)
(* pull request's issue of line 390, or between that and the catalog fetch *)
(* of line 396.  Every remote call succeeds.                               *)
(***************************************************************************)
Edits ==
    {Edit(at, "delete", l, None) : at \in {390, 396}, l \in LabelNames}
    \cup {Edit(at, "rename", l, "shipped") : at \in {390, 396}, l \in LabelNames}
    \cup {Edit(at, "add", None, l) : at \in {390, 396}, l \in {"Merged", "rejected"}}

RaceOracles == {[Oracle({}, {}, {}) EXCEPT !.edit = e] : e \in Edits \cup {NoEdit}}

RaceEvents ==
    {StatusChange(old, new, ThePull.repo, "7") :
        old \in {"Open", "Merged"}, new \in {"Open", "Merged", "Rejected"}}

IssueUpdatedRacing ==
    /\ deliveries = 0
    /\ \E ev \in RaceEvents, o \in RaceOracles : UpdatedStep(ev, o)

NextRace == IssueUpdatedRacing

SpecRace == InitSync /\ [][NextRace]_vars

(***************************************************************************)
(* Link resolution on its own: the three functions applied to issues with  *)
(* every combination of own fields and parent, while the fields of the     *)
(* parent may be edited in JIRA between two calls.                         *)
(***************************************************************************)
MaxResolutions == 2  \* calls of the link-resolution functions in a behaviour

ParentRepo == "edx/parent-repo"

LinkIssues ==
    {LinkedIssue(IF parent = None THEN "OSPR-1" ELSE "OSPR-2", "OSPR",
                 parent # None, "Open", repo, num, parent) :
        repo \in {None, "", ThePull.repo},
        num \in {None, "7", "abc", "0", "-3"},
        parent \in {None, "OSPR-9"}}

\* What JIRA may hold for the parent "OSPR-9"; its own parent "OSPR-8" has
\* both fields.
ParentValues == {Fields(r, n, "OSPR-8") : r \in {None, ParentRepo}, n \in {None, "8"}}
GrandparentFields == Fields("edx/grandparent-repo", "9", None)

LinkOracles == {Oracle(f, {}, {}) : f \in FailSets({32})}

InitLink ==
    /\ InitProcess
    /\ jiraStatus = None
    /\ prState = "open"
    /\ prLabels = <<>>
    /\ prComments = 0
    /\ repoLabels = {}
    /\ parentFields \in [ParentKeys -> ParentValues \cup {GrandparentFields}]
    /\ parentFields["OSPR-9"] \in ParentValues
    /\ parentFields["OSPR-8"] = GrandparentFields

\* One call of a link-resolution function: res is its result.
LinkStep(fn, issue, res, repo, num) ==
    /\ deliveries' = deliveries + 1
    /\ resolved' = [fn |-> fn, issue |-> issue, exc |-> res.exc, text |-> res.text,
                    repo |-> repo, num |-> num, calls |-> res.w.calls,
                    tracker |-> parentFields]
    /\ customFieldsCached' = res.w.customFieldsCached
    /\ issueCache' = res.w.issueCache
    /\ UNCHANGED <<event, run, jiraStatus, prState, prLabels, prComments,
                   repoLabels, parentFields>>

LinkWorld == [calls |-> <<>>, customFieldsCached |-> customFieldsCached,
              issueCache |-> issueCache]

ResolveRepo ==
    /\ deliveries < MaxResolutions
    /\ \E issue \in LinkIssues, o \in LinkOracles :
       \E res \in {github_pr_repo(LinkWorld, issue, o)} :
          LinkStep("github_pr_repo", issue, res, res.ret, NoNum)

ResolveNum ==
    /\ deliveries < MaxResolutions
    /\ \E issue \in LinkIssues, o \in LinkOracles :
       \E res \in {github_pr_num(LinkWorld, issue, o)} :
          LinkStep("github_pr_num", issue, res, None, res.ret)

ResolveUrl ==
    /\ deliveries < MaxResolutions
    /\ \E issue \in LinkIssues, o \in LinkOracles :
       \E res \in {github_pr_url(LinkWorld, issue, o)} :
          LinkStep("github_pr_url", issue, res, res.ret.repo,
                   [some |-> res.exc = None, n |-> res.ret.num])

\* Somebody edits "Repo" or "PR Number" of the parent issue in JIRA.
ParentEdited ==
    /\ \E f \in ParentValues :
          /\ f # parentFields["OSPR-9"]
          /\ parentFields' = [parentFields EXCEPT !["OSPR-9"] = f]
    /\ UNCHANGED <<event, deliveries, run, jiraStatus, prState, prLabels,
                   prComments, repoLabels, customFieldsCached, issueCache,
                   resolved>>

NextLink == ResolveRepo \/ ResolveNum \/ ResolveUrl \/ ParentEdited

SpecLink == InitLink /\ [][NextLink]_vars

(***************************************************************************)
(* What the last handling did, read off the state.                         *)
(***************************************************************************)
CreatedHandled == run.handler = "created" /\ event.hasIssue
Made(line) == line \in LinesOf(run.calls)
Answer(line) == CallAt(run.calls, line)
Ignored == Returned(<<Text("ignored")>>)
TransitionedToOpen == Returned(<<Text("Transitioned to Open")>>)

\* An issue in "Needs Triage" that is an OSPR subtask or of another project.
OnExemptionPath ==
    /\ CreatedHandled
    /\ event.issue.status = NeedsTriage
    /\ (event.issue.project # "OSPR" \/ event.issue.subtask)

\* The Group Exemption Table applied to the groups JIRA returned.
CreatorIsExempt ==
    LET groups == Answer(139).names
    IN  \/ "edx-employees" \in groups
        \/ /\ event.issue.project = "MOB"
           /\ groups \cap {"clarice", "bnotions"} # {}

(***************************************************************************)
(* C1: after the issue-created handler has moved an issue out of "Needs    *)
(* Triage", handling the same issue-created payload again performs no      *)
(* transition write and reports an outcome (the one reported before, or    *)
(* "ignored").  The code reads the status of the payload, not of the       *)
(* tracker, and so decides to transition again: TLC finds this violated.   *)
(***************************************************************************)
C1_RedeliveryWritesNothing ==
    ( /\ CreatedHandled
      /\ deliveries >= 2
      /\ run.before.jiraStatus # NeedsTriage
      /\ event.issue.status = NeedsTriage )
    => /\ ~Made(192)
       /\ run.outcome \in {run.prevOutcome, Ignored}

(***************************************************************************)
(* C2: for every issue whose status is not "Needs Triage" the              *)
(* issue-created handler fetches neither the creator's groups nor the      *)
(* transitions, writes no transition and reports "ignored".                *)
(***************************************************************************)
C2_NotInTriageIgnored ==
    (CreatedHandled /\ event.issue.status # NeedsTriage)
    => /\ ~Made(139)
       /\ ~Made(176)
       /\ WritesOf(run.calls) = {}
       /\ run.outcome = Ignored
       /\ jiraStatus = run.before.jiraStatus

C2_Witness ==
    /\ CreatedHandled
    /\ event.issue.status = "Open"
    /\ event.issue.project = "MOB"
    /\ run.outcome = Ignored

(***************************************************************************)
(* C3: a top-level (non-subtask) OSPR issue in "Needs Triage" is never     *)
(* transitioned, whatever JIRA would answer about its creator's groups:    *)
(* the handler makes no outbound call at all, reports "ignored" and the    *)
(* issue stays in "Needs Triage".                                          *)
(***************************************************************************)
C3_TopLevelOsprStaysInTriage ==
    ( /\ CreatedHandled
      /\ event.issue.status = NeedsTriage
      /\ event.issue.project = "OSPR"
      /\ ~event.issue.subtask )
    => /\ run.calls = <<>>
       /\ run.outcome = Ignored
       /\ jiraStatus = NeedsTriage

C3_Witness ==
    /\ CreatedHandled
    /\ event.issue.key = "OSPR-1"
    /\ event.issue.status = NeedsTriage
    /\ deliveries = 2
    /\ run.outcome = Ignored

(***************************************************************************)
(* C4: for an issue in "Needs Triage" that is an OSPR subtask or of        *)
(* another project, the creator's groups are fetched, and once JIRA has    *)
(* returned them the handler goes on to transition the issue if and only   *)
(* if one of the groups is in the exemption table with "ALL" or with the   *)
(* issue's project key.  With no such group it writes nothing and reports  *)
(* "ignored"; with such a group, a usable transition offered and every     *)
(* call answered, the transition is written and the issue leaves "Needs    *)
(* Triage".                                                                *)
(***************************************************************************)
C4_ExemptionDecidesTransition ==
    OnExemptionPath =>
      /\ Made(139)
      /\ Answer(139).ok =>
           /\ Made(176) <=> CreatorIsExempt
           /\ Made(192) => CreatorIsExempt
           /\ ~CreatorIsExempt =>
                /\ WritesOf(run.calls) = {}
                /\ run.outcome = Ignored
                /\ jiraStatus = run.before.jiraStatus
           /\ ( /\ CreatorIsExempt
                /\ Answer(176).ok
                /\ Answer(176).names \cap {"Open", "Design Backlog"} # {} )
              => /\ Made(192)
                 /\ Answer(192).ok =>
                      /\ run.outcome = TransitionedToOpen
                      /\ jiraStatus \in {"Open", "Design Backlog"}

C4_Witness ==
    /\ OnExemptionPath
    /\ event.issue.project = "MOB"
    /\ Made(139)
    /\ Answer(139).names = {"clarice", "partners"}
    /\ Made(192)
    /\ jiraStatus = "Open"

(***************************************************************************)
(* C5: when the issue qualifies and JIRA has returned the transitions,     *)
(* the handler writes exactly one transition: the one named "Open" if it   *)
(* is offered, otherwise "Design Backlog" if that is offered; when         *)
(* neither is offered it raises "No valid transition!" and writes          *)
(* nothing.                                                                *)
(***************************************************************************)
C5_OneTransitionOpenFirst ==
    (CreatedHandled /\ Made(176) /\ Answer(176).ok) =>
      LET offered == Answer(176).names
          idOf(name) == (CHOOSE t \in JiraTransitions : t.name = name).id
          wanted == IF "Open" \in offered THEN "Open" ELSE "Design Backlog"
      IN  IF offered \cap {"Open", "Design Backlog"} # {}
          THEN /\ Cardinality(WritesOf(run.calls)) = 1
               /\ Made(192)
               /\ Answer(192).arg = <<idOf(wanted)>>
               /\ Answer(192).ok => jiraStatus = wanted
          ELSE /\ WritesOf(run.calls) = {}
               /\ run.outcome = Raised("ValueError", <<Text("No valid transition!")>>)
               /\ jiraStatus = run.before.jiraStatus

C5_Witness ==
    /\ CreatedHandled
    /\ Made(176)
    /\ Answer(176).names = {"Design Backlog", "Close"}
    /\ Made(192)
    /\ Answer(192).arg = <<"21">>
    /\ jiraStatus = "Design Backlog"

(***************************************************************************)
(* The status synchronizer: what the last handling of an issue-updated     *)
(* event did.                                                              *)
(***************************************************************************)
\* The handling got the catalog of the repository (line 305) and so came
\* to choose its reactions (lines 313-328).
Reacted == run.handler = "updated" /\ Made(305) /\ Answer(305).ok

StatusChangeOf(ev) == StatusItems(ev.items)[1]
OldStatus == StatusChangeOf(event).fromString
NewStatus == StatusChangeOf(event).toString

RejectionRan == "rejected" \in Range(run.branches)
LabelBranchRan == "status_changed" \in Range(run.branches)

\* The new status, lowercased, is a lowercased label name of the catalog.
MatchesALabel(status, catalog) == \E name \in catalog : Lower(name) = Lower(status)

\* The rejection branch found the pull request closed / open.
FoundClosed == RejectionRan /\ Made(339) /\ Answer(339).ok /\ Answer(339).state = "closed"
FoundOpen == RejectionRan /\ Made(339) /\ Answer(339).ok /\ Answer(339).state = "open"

AlreadyClosedMsg ==
    Msg("was rejected, but PR was already closed", event.issue.key, ThePull.num, <<>>)
ClosedMsg == Msg("Closed PR", None, ThePull.num, <<>>)

(***************************************************************************)
(* C6: for a status change to "Rejected" on a pull request that GitHub     *)
(* reports closed, the rejection branch posts no comment and issues no     *)
(* close, and returns the already-closed outcome; the pull request stays   *)
(* closed with the comments it had.                                        *)
(***************************************************************************)
C6_ClosedPullLeftAlone ==
    (Reacted /\ FoundClosed) =>
      /\ ~Made(360)
      /\ ~Made(363)
      /\ Len(run.changes) >= 1
      /\ run.changes[1] = AlreadyClosedMsg
      /\ prState = "closed"
      /\ prComments = run.before.prComments

C6_Witness ==
    /\ Reacted
    /\ NewStatus = "Rejected"
    /\ FoundClosed
    /\ run.outcome = Returned(<<AlreadyClosedMsg>>)

(***************************************************************************)
(* C7: for a status change to "Rejected" on a pull request that GitHub     *)
(* reports open, the comment is posted and then the close is issued,       *)
(* whatever the response to the comment; the branch raises if and only if  *)
(* one of the two calls failed, with a text naming each failed call;       *)
(* what succeeded stays: the comment is on the pull request if its post    *)
(* succeeded, the pull request is closed if the close succeeded, and no    *)
(* further write follows a failure.                                        *)
(***************************************************************************)
C7_CommentThenCloseReportBoth ==
    (Reacted /\ FoundOpen) =>
      LET at(line) == CHOOSE i \in DOMAIN run.calls : run.calls[i].line = line
          commentFailed == ~Answer(360).ok
          closeFailed == ~Answer(363).ok
          text == (IF closeFailed THEN <<Text("Failed to close; ")>> ELSE <<>>)
                  \o (IF commentFailed THEN <<Text("Failed to comment on the PR; ")>>
                      ELSE <<>>)
      IN  /\ Made(360) /\ Made(363)
          /\ at(363) = at(360) + 1
          /\ (commentFailed \/ closeFailed) =>
                /\ run.outcome = Raised("RequestException", text)
                /\ run.changes = <<>>
                /\ at(363) = Len(run.calls)
          /\ ~(commentFailed \/ closeFailed) =>
                /\ Len(run.changes) >= 1
                /\ run.changes[1] = ClosedMsg
          /\ prComments = run.before.prComments + (IF commentFailed THEN 0 ELSE 1)
          /\ prState = IF closeFailed THEN "open" ELSE "closed"

C7_Witness ==
    /\ Reacted
    /\ FoundOpen
    /\ Answer(360).ok
    /\ ~Answer(363).ok
    /\ run.outcome = Raised("RequestException", <<Text("Failed to close; ")>>)
    /\ prComments = run.before.prComments + 1
    /\ prState = "open"

(***************************************************************************)
(* C8: the label list the label branch writes is the list it read from     *)
(* the pull request, without the label of the old status and with the      *)
(* label of the new status in the catalog's casing; the other labels are   *)
(* all kept, in their order; it is written by one call, which replaces     *)
(* the labels of the pull request.  <<"bug", "Open">> with Open -> Merged  *)
(* gives <<"bug", "Merged">>.                                              *)
(***************************************************************************)
C8_LabelsReplacedUnrelatedKept ==
    (Reacted /\ Made(422)) =>
      LET read == Answer(390).labels
          written == Answer(422).arg
          catalog == Answer(396).names
          newLabel == CHOOSE name \in catalog : Lower(name) = Lower(NewStatus)
          oldLabel == IF MatchesALabel(OldStatus, catalog)
                      THEN CHOOSE name \in catalog : Lower(name) = Lower(OldStatus)
                      ELSE OldStatus
          Unrelated(label) == label \notin {oldLabel, newLabel}
      IN  /\ MatchesALabel(NewStatus, catalog)
          /\ Range(written) = (Range(read) \ {oldLabel}) \cup {newLabel}
          /\ SelectSeq(written, Unrelated) = SelectSeq(read, Unrelated)
          /\ Len(written) = Cardinality(Range(written))
          /\ Cardinality({i \in DOMAIN run.calls : run.calls[i].line = 422}) = 1
          /\ Answer(422).ok => prLabels = written
          /\ (read = <<"bug", "Open">> /\ OldStatus = "Open" /\ NewStatus = "Merged"
              /\ "Merged" \in catalog) => written = <<"bug", "Merged">>

C8_Witness ==
    /\ Reacted
    /\ Made(422)
    /\ OldStatus = "Open"
    /\ NewStatus = "Merged"
    /\ Answer(390).labels = <<"bug", "Open">>
    /\ Answer(422).ok
    /\ prLabels = <<"bug", "Merged">>

(***************************************************************************)
(* C9: when the new status is not "Rejected" and its lowercase form is no  *)
(* lowercased label name of the catalog the handler fetched, the handling  *)
(* makes no outbound write, runs neither branch, leaves the pull request   *)
(* as it was and returns the one outcome "no change necessary".            *)
(***************************************************************************)
C9_NoReactionNoWrite ==
    ( /\ Reacted
      /\ NewStatus # "Rejected"
      /\ ~MatchesALabel(NewStatus, Answer(305).names) )
    => /\ WritesOf(run.calls) = {}
       /\ run.branches = <<>>
       /\ run.outcome = Returned(<<Text("no change necessary")>>)
       /\ prState = run.before.prState
       /\ prLabels = run.before.prLabels
       /\ prComments = run.before.prComments

C9_Witness ==
    /\ Reacted
    /\ NewStatus = "Merged"
    /\ Answer(305).names = {"bug", "Open"}
    /\ run.outcome = Returned(<<Text("no change necessary")>>)

(***************************************************************************)
(* C10: once the handler has the catalog, the rejection branch runs        *)
(* exactly when the new status is "Rejected", and, unless the rejection    *)
(* branch raised, the label branch runs exactly when the lowercased new    *)
(* status is a lowercased label name of the catalog.  When both run, the   *)
(* rejection branch and its calls come first, and a handling that returns  *)
(* returns the outcome of the rejection branch followed by the outcome of  *)
(* the label branch.                                                       *)
(***************************************************************************)
C10_BranchesChosenSeparately ==
    Reacted =>
      LET rejectionRaised == RejectionRan /\ run.changes = <<>>
          worthy == MatchesALabel(NewStatus, Answer(305).names)
          rejectionCalls == {i \in DOMAIN run.calls : run.calls[i].line \in {339, 360, 363}}
          labelCalls == {i \in DOMAIN run.calls : run.calls[i].line \in {390, 396, 422}}
      IN  /\ RejectionRan <=> NewStatus = "Rejected"
          /\ ~rejectionRaised => (LabelBranchRan <=> worthy)
          /\ rejectionRaised => ~LabelBranchRan
          /\ (RejectionRan /\ LabelBranchRan) =>
                /\ run.branches = <<"rejected", "status_changed">>
                /\ \A i \in rejectionCalls, j \in labelCalls : i < j
                /\ run.outcome.kind = "return" =>
                     /\ run.outcome.value = run.changes
                     /\ Len(run.changes) = 2
                     /\ run.changes[1] \in {ClosedMsg, AlreadyClosedMsg}
                     /\ run.changes[2].msg = "Changed labels of PR"
          /\ (~RejectionRan /\ LabelBranchRan /\ run.outcome.kind = "return") =>
                /\ Len(run.outcome.value) = 1
                /\ run.outcome.value[1].msg = "Changed labels of PR"
          /\ (RejectionRan /\ ~LabelBranchRan /\ run.outcome.kind = "return") =>
                /\ Len(run.outcome.value) = 1
                /\ run.outcome.value[1] \in {ClosedMsg, AlreadyClosedMsg}

C10_Witness ==
    /\ Reacted
    /\ NewStatus = "Rejected"
    /\ "rejected" \in Answer(305).names
    /\ run.branches = <<"rejected", "status_changed">>
    /\ run.outcome.kind = "return"
    /\ run.outcome.value[1] = ClosedMsg
    /\ run.outcome.value[2].msg = "Changed labels of PR"
    /\ prState = "closed"
    /\ "rejected" \in Range(prLabels)

(***************************************************************************)
(* The views: what the last handling of an issue-updated event did.        *)
(***************************************************************************)
UpdatedHandled == run.handler = "updated" /\ event.hasIssue

GithubCalls ==
    {i \in DOMAIN run.calls :
        run.calls[i].op \in {"github.get", "github.post", "github.patch"}}

HasStatusItem(ev) ==
    ev.hasChangelog /\ \E i \in DOMAIN ev.items : ev.items[i].field = "status"

PullUntouched ==
    /\ prState = run.before.prState
    /\ prLabels = run.before.prLabels
    /\ prComments = run.before.prComments

(***************************************************************************)
(* C11: an issue-updated event that is not for project OSPR, or is for an  *)
(* OSPR subtask, or has no changelog, or has no "status" item in its       *)
(* changelog, makes the handler call GitHub not once, for a read or for a  *)
(* write, and run neither the rejection branch nor the label branch; the   *)
(* pull request is left as it was.                                         *)
(***************************************************************************)
C11_OtherUpdatesIgnored ==
    ( /\ UpdatedHandled
      /\ \/ event.issue.project # "OSPR"
         \/ event.issue.subtask
         \/ ~event.hasChangelog
         \/ ~HasStatusItem(event) )
    => /\ GithubCalls = {}
       /\ run.branches = <<>>
       /\ run.changes = <<>>
       /\ PullUntouched

C11_Witness ==
    /\ UpdatedHandled
    /\ event.issue.project = "OSPR"
    /\ event.issue.subtask
    /\ event.comment = None
    /\ HasStatusItem(event)
    /\ run.outcome = Returned(<<Text("ignoring subtasks")>>)
    /\ run.calls = <<>>

(***************************************************************************)
(* Link resolution: what the last call of a link-resolution function did.  *)
(***************************************************************************)
\* The call got the custom-field directory, and so read the fields.
Resolved(fn) == resolved.fn = fn /\ resolved.exc # "RequestException"

\* The keys of the issues the call fetched from JIRA.
FetchedKeys ==
    {resolved.calls[i].arg[2] :
        i \in {j \in DOMAIN resolved.calls : resolved.calls[j].line = 45}}

\* The parent issue as get_jira_issue gave it to the call: as JIRA held it
\* when the call fetched it, or else as the memo holds it.
ParentGiven ==
    IF resolved.issue.parent \in FetchedKeys
    THEN resolved.tracker[resolved.issue.parent]
    ELSE issueCache[resolved.issue.parent]

MissingMsg == Msg("is missing Repo or PR Number fields", resolved.issue.key, 0, <<>>)

C13_OnlyPositiveNumbers ==
    /\ Resolved("github_pr_num") => resolved.exc = None
    /\ Resolved("github_pr_url") =>
          IF resolved.exc = None
          THEN /\ ~Falsy(resolved.repo)
               /\ resolved.num.some
               /\ resolved.num.n > 0
          ELSE /\ resolved.exc = "Exception"
               /\ resolved.text = <<MissingMsg>>

(***************************************************************************)
(* C14: an event without an issue object, delivered to the issue-created   *)
(* or to the issue-updated view, is answered with HTTP 400, whatever else  *)
(* it carries; the view makes no outbound call for it, to JIRA or to       *)
(* GitHub, and changes nothing.                                            *)
(***************************************************************************)
C14_NoIssueRejected ==
    (run.handler \in {"created", "updated"} /\ ~event.hasIssue)
    => /\ run.outcome.kind = "return"
       /\ run.outcome.status = 400
       /\ run.calls = <<>>
       /\ run.branches = <<>>
       /\ PullUntouched
       /\ jiraStatus = run.before.jiraStatus

C14_Witness ==
    /\ run.handler = "updated"
    /\ ~event.hasIssue
    /\ event.comment = "report"
    /\ HasStatusItem(event)
    /\ run.outcome = Rejected400
    /\ run.prevOutcome = Rejected400

(***************************************************************************)
(* C15: when an issue-updated event with a status change has been handled  *)
(* with every remote call succeeding, handling the same event once more,   *)
(* again with every call succeeding and nobody else changing GitHub in     *)
(* between, leaves the pull request open or closed as the handling before  *)
(* left it, and with the same set of labels; if the first handling         *)
(* returned, so does the second.  (A failed remote call is the only source *)
(* of a RequestException.)                                                 *)
(***************************************************************************)
AllCallsOk == \A i \in DOMAIN run.calls : run.calls[i].ok

C15_SecondHandlingChangesNothing ==
    ( /\ run.handler = "updated"
      /\ deliveries >= 2
      /\ run.prevOutcome.exc # "RequestException"
      /\ AllCallsOk )
    => /\ prState = run.before.prState
       /\ Range(prLabels) = Range(run.before.prLabels)
       /\ run.outcome.kind = run.prevOutcome.kind

\* A rejection handled twice: the second handling finds the pull request
\* closed and labelled, and writes the labels it read.
C15_Witness ==
    /\ run.handler = "updated"
    /\ deliveries = 2
    /\ run.prevOutcome.kind = "return"
    /\ AllCallsOk
    /\ NewStatus = "Rejected"
    /\ run.changes = <<AlreadyClosedMsg,
                       Msg("Changed labels of PR", None, ThePull.num, prLabels)>>
    /\ prState = "closed"
    /\ Made(422)
    /\ prLabels = Answer(390).labels

(***************************************************************************)
(* C16: when the label branch has written the labels for a status change   *)
(* old -> new, old and new differing also when lowercased, the list it     *)
(* wrote holds no label whose lowercased name is the lowercased old        *)
(* status, whether the catalog the branch fetched holds a label for the    *)
(* old status or not, and it holds the label of the new status as the      *)
(* catalog spells it.  Without a label for the old status in the catalog   *)
(* the code removes only the label spelled exactly as the status, and so   *)
(* keeps a label of the pull request that differs from it in case: TLC     *)
(* finds this violated when the label is deleted from the repository       *)
(* after the branch has read the pull request's labels.                    *)
(***************************************************************************)
C16_OldStatusLabelGone ==
    ( /\ Reacted
      /\ Made(422)
      /\ Answer(422).ok
      /\ Lower(OldStatus) # Lower(NewStatus) )
    => LET written == Range(Answer(422).arg)
           catalog == Answer(396).names
       IN  /\ \A label \in written : Lower(label) # Lower(OldStatus)
           /\ \E label \in written :
                 label \in catalog /\ Lower(label) = Lower(NewStatus)

(***************************************************************************)
(* C17: whenever the label branch is entered and gets its own copy of the  *)
(* catalog, it finds the label of the new status in it, also when labels   *)
(* of the repository were added, renamed or deleted after the handler's    *)
(* first catalog fetch: the lookup of line 414 raises no KeyError.  The    *)
(* branch looks the label up in the catalog it fetched itself, which need  *)
(* not hold the label any more: TLC finds this violated.                   *)
(***************************************************************************)
C17_LabelLookupSucceeds ==
    (Reacted /\ LabelBranchRan /\ Made(396) /\ Answer(396).ok)
    => /\ MatchesALabel(NewStatus, Answer(396).names)
       /\ run.outcome.exc # "KeyError"

(***************************************************************************)
(* C18: link resolution takes the pull request of an issue from what JIRA  *)
(* holds when it is called, nothing but the custom-field directory being   *)
(* kept from one call to the next: a result that comes from the parent     *)
(* issue is the value JIRA holds for the parent at the time of the call,   *)
(* also when the parent was edited since an earlier call.  The code keeps  *)
(* the parent it fetched first in the memo of get_jira_issue and answers   *)
(* from it: TLC finds this violated.                                       *)
(***************************************************************************)
C18_ParentReadAfresh ==
    LET issue == resolved.issue
        parentNow == resolved.tracker[issue.parent]
    IN  /\ (Resolved("github_pr_repo") /\ Falsy(issue.repo) /\ issue.parent # None)
              => resolved.repo = parentNow.repo
        /\ (Resolved("github_pr_num") /\ Falsy(issue.num) /\ issue.parent # None)
              => resolved.num = IntOrNone(parentNow.num)

(***************************************************************************)
(* C19: an outbound read that fails ends the handling at once: it is the   *)
(* last call the handling makes, so no write follows it and it is not      *)
(* made again, and the handling raises a RequestException.  After a failed *)
(* fetch of the creator's groups or of the transitions no transition is    *)
(* posted and the issue keeps its status; after a failed fetch of the      *)
(* catalog or of the pull request's issue no comment is posted, the pull   *)
(* request is not closed and its labels are not replaced.  (What the       *)
(* rejection branch wrote before a read of the label branch failed stays.) *)
(***************************************************************************)
ReadOps == {"jira.get", "github.get"}

FailedReads == {i \in DOMAIN run.calls : run.calls[i].op \in ReadOps /\ ~run.calls[i].ok}

C19_FailedReadEndsHandling ==
    \A i \in FailedReads :
        LET after == {j \in DOMAIN run.calls : j > i}
            repeated == {j \in DOMAIN run.calls : j # i /\ run.calls[j].line = run.calls[i].line}
        IN  /\ after = {}
            /\ repeated = {}
            /\ run.outcome = Raised("RequestException", <<>>)
            /\ run.calls[i].line \in {139, 176} =>
                  ~Made(192) /\ jiraStatus = run.before.jiraStatus
            /\ run.calls[i].line \in {305, 339} =>
                  WritesOf(run.calls) = {} /\ PullUntouched
            /\ run.calls[i].line \in {390, 396} =>
                  ~Made(422) /\ prLabels = run.before.prLabels

\* The fetch of the pull request's issue fails in the label branch, after
\* the rejection branch has commented and closed.
C19_Witness ==
    /\ UpdatedHandled
    /\ Made(390)
    /\ ~Answer(390).ok
    /\ Made(363)
    /\ Answer(363).ok
    /\ prState = "closed"
    /\ run.outcome = Raised("RequestException", <<>>)
    /\ run.prevOutcome = Raised("RequestException", <<>>)
    /\ run.before.jiraStatus = NeedsTriage

(***************************************************************************)
(* C20: every issue-updated event for a top-level OSPR issue whose         *)
(* changelog has a "status" item reaches the status synchronizer, with or  *)
(* without a comment object: the handler resolves the repository and       *)
(* fetches its catalog (unless the fetch of the custom-field directory     *)
(* failed) to evaluate the rejection and the label condition.  The code    *)
(* hands every event that carries a comment to the comment parser, status  *)
(* item or not: TLC finds this violated.                                   *)
(***************************************************************************)
C20_StatusChangeReachesSynchronizer ==
    ( /\ UpdatedHandled
      /\ event.issue.project = "OSPR"
      /\ ~event.issue.subtask
      /\ HasStatusItem(event) )
    => \/ Made(305)
       \/ Made(32) /\ ~Answer(32).ok

(***************************************************************************)
(* C21: over the deliveries of a status change to "Rejected" for one pull  *)
(* request, the first and every redelivery, the explanatory comment is     *)
(* posted on the pull request at most once, also when a handling posted    *)
(* the comment and failed to close.  The code decides to comment on the    *)
(* pull request being open, which it still is after a failed close, and    *)
(* so comments again on the redelivery: TLC finds this violated.           *)
(***************************************************************************)
C21_CommentPostedAtMostOnce ==
    (run.handler = "updated" /\ HasStatusItem(event) /\ NewStatus = "Rejected")
    => prComments <= 1

=============================================================================
